---- MODULE Spec2Model ----
(***************************************************************************)
(* Model of the Word-template form filler (server.py, server-gemini.py,    *)
(* server-new.py): discovery of {{field}} placeholders in a document and   *)
(* their substitution from a dictionary of field values.                   *)
(*                                                                         *)
(* A text is a sequence of one-character strings.  A paragraph is the      *)
(* sequence of the texts of its runs.  The three server files are three    *)
(* variants of the same program; `variant` says which one is running.      *)
(***************************************************************************)
EXTENDS Integers, Sequences, FiniteSets, TLC

VARIABLES
    variant,             \* which server file runs: "server", "gemini", "new"
    template_file,       \* TEMPLATE_PATH: "ok", "missing" or "unloadable"
    template,            \* the document at TEMPLATE_PATH
    json_valid,          \* the fields_data argument parses as JSON
    fields_data,         \* the caller's field data, as json.loads returns it
    listed,              \* find_template_fields has returned
    fields,              \* its result
    findLog,             \* the paragraphs it read, in order
    result,              \* how the last generate_document ended
    output,              \* the document saved in OUTPUT_DIR
    replacements_count,  \* the count replace_fields_in_document returned
    replaceLog,          \* the paragraphs it visited, in order
    assigned,            \* the paragraphs whose text it assigned, in order
    preview,             \* what the last preview_replacements reported
    clock,               \* datetime.now(), in whole seconds
    calls,               \* the generate_document calls in progress
    output_dir           \* the files of OUTPUT_DIR, by name

vars == <<variant, template_file, template, json_valid, fields_data, listed,
          fields, findLog, result, output, replacements_count, replaceLog,
          assigned, preview, clock, calls, output_dir>>

-----------------------------------------------------------------------------
(* Texts *)

OPEN == <<"{", "{">>

CLOSE == <<"}", "}">>

Whitespace == {" ", "\t", "\n"}

RECURSIVE Flatten(_)
Flatten(seqs) ==
    IF seqs = <<>> THEN <<>> ELSE Head(seqs) \o Flatten(Tail(seqs))

(* text[i..] starts with pat *)
StartsAt(text, i, pat) ==
    /\ i + Len(pat) - 1 <= Len(text)
    /\ \A k \in 1..Len(pat) : text[i + k - 1] = pat[k]

(* smallest j >= i with text[j] in stops, or Len(text)+1 *)
RECURSIVE NextIn(_, _, _)
NextIn(text, i, stops) ==
    IF i > Len(text) \/ text[i] \in stops THEN i ELSE NextIn(text, i + 1, stops)

(* str.strip() *)
RECURSIVE LStrip(_)
LStrip(s) ==
    IF s # <<>> /\ Head(s) \in Whitespace THEN LStrip(Tail(s)) ELSE s

RECURSIVE RStrip(_)
RStrip(s) ==
    IF s # <<>> /\ s[Len(s)] \in Whitespace
    THEN RStrip(SubSeq(s, 1, Len(s) - 1)) ELSE s

Strip(s) == RStrip(LStrip(s))

(* `pat in text` *)
Contains(text, pat) == \E i \in 1..Len(text) : StartsAt(text, i, pat)

(* str.count(pat): non-overlapping occurrences, left to right *)
RECURSIVE CountFrom(_, _, _)
CountFrom(text, i, pat) ==
    IF i > Len(text) THEN 0
    ELSE IF StartsAt(text, i, pat) THEN 1 + CountFrom(text, i + Len(pat), pat)
    ELSE CountFrom(text, i + 1, pat)

StrCount(text, pat) == CountFrom(text, 1, pat)

(* str.replace(pat, new): every non-overlapping occurrence, left to right *)
RECURSIVE ReplaceFrom(_, _, _, _)
ReplaceFrom(text, i, pat, new) ==
    IF i > Len(text) THEN <<>>
    ELSE IF StartsAt(text, i, pat)
         THEN new \o ReplaceFrom(text, i + Len(pat), pat, new)
    ELSE <<text[i]>> \o ReplaceFrom(text, i + 1, pat, new)

StrReplace(text, pat, new) == ReplaceFrom(text, 1, pat, new)

-----------------------------------------------------------------------------
(* Field values: a parsed JSON value is a string or a boolean *)

StrVal(s) == [t |-> "str", s |-> s]

BoolVal(b) == [t |-> "bool", b |-> b]

(* str(value) *)
PyStr(v) ==
    IF v.t = "str" THEN v.s
    ELSE IF v.b THEN <<"T", "r", "u", "e">> ELSE <<"F", "a", "l", "s", "e">>

(* fields_data is a dict: a sequence of <<key, value>> pairs in insertion *)
(* order, with distinct keys                                              *)
Keys(data) == {data[i][1] : i \in 1..Len(data)}

Get(data, key) == data[CHOOSE i \in 1..Len(data) : data[i][1] = key][2]

-----------------------------------------------------------------------------
(* Regular expressions *)

(* re.findall(r'\{\{([^}]+)\}\}', text): the captured groups, in order.   *)
(* After "{{" the greedy class runs to the next "}", which must start     *)
(* "}}"; the run must not be empty.  A failed start is retried one        *)
(* character on, a match is followed by a scan after its end.             *)
RECURSIVE FindallFrom(_, _)
FindallFrom(text, i) ==
    IF i > Len(text) THEN <<>>
    ELSE LET j == NextIn(text, i + 2, {"}"})
         IN  IF /\ StartsAt(text, i, OPEN)
                /\ j > i + 2
                /\ StartsAt(text, j, CLOSE)
             THEN <<SubSeq(text, i + 2, j - 1)>> \o FindallFrom(text, j + 2)
             ELSE FindallFrom(text, i + 1)

Findall(text) == FindallFrom(text, 1)

(* The group captured by \s*([^{}]+?)\s* on a non-empty brace-free run:   *)
(* the greedy \s* takes the leading whitespace and the lazy group stops   *)
(* at the last non-blank character; on an all-blank run \s* gives back    *)
(* one character, which the group takes.                                  *)
LazyGroup(run) ==
    IF Strip(run) = <<>> THEN <<run[Len(run)]>> ELSE Strip(run)

(* re.findall(r'\{\{\s*([^{}]+?)\s*\}\}', text) *)
RECURSIVE FindallPaddedFrom(_, _)
FindallPaddedFrom(text, i) ==
    IF i > Len(text) THEN <<>>
    ELSE LET j == NextIn(text, i + 2, {"{", "}"})
         IN  IF /\ StartsAt(text, i, OPEN)
                /\ j > i + 2
                /\ StartsAt(text, j, CLOSE)
             THEN <<LazyGroup(SubSeq(text, i + 2, j - 1))>>
                      \o FindallPaddedFrom(text, j + 2)
             ELSE FindallPaddedFrom(text, i + 1)

FindallPadded(text) == FindallPaddedFrom(text, 1)

(* The replacement template of re.sub: a backslash escapes the next       *)
(* character.  ok is FALSE where re raises (a group reference with no     *)
(* such group, a bad escape, a trailing backslash).                       *)
RECURSIVE ExpandTemplate(_)
ExpandTemplate(repl) ==
    IF repl = <<>> THEN [ok |-> TRUE, text |-> <<>>]
    ELSE IF Head(repl) # "\\"
         THEN LET r == ExpandTemplate(Tail(repl))
              IN  [ok |-> r.ok, text |-> <<Head(repl)>> \o r.text]
    ELSE IF Len(repl) = 1 THEN [ok |-> FALSE, text |-> <<>>]
    ELSE LET c == repl[2]
             r == ExpandTemplate(SubSeq(repl, 3, Len(repl)))
         IN  IF c = "\\" THEN [ok |-> r.ok, text |-> <<"\\">> \o r.text]
             ELSE IF c = "n" THEN [ok |-> r.ok, text |-> <<"\n">> \o r.text]
             ELSE IF c = "t" THEN [ok |-> r.ok, text |-> <<"\t">> \o r.text]
             ELSE IF c \in {"{", "}", " "}
                  THEN [ok |-> r.ok, text |-> <<"\\", c>> \o r.text]
             ELSE [ok |-> FALSE, text |-> <<>>]

-----------------------------------------------------------------------------
(* Discovery in one text *)

extract_fields_from_text_trimmed(text) ==
    LET matches == Findall(text)
    IN  {Strip(matches[i]) : i \in 1..Len(matches)}

(* server.py and server-gemini.py: the names as captured, not trimmed *)
extract_fields_from_text(text) ==
    LET matches == Findall(text)
    IN  {matches[i] : i \in 1..Len(matches)}

(* server-new.py *)
extract_fields(text) ==
    LET matches == FindallPadded(text)
    IN  {matches[i] : i \in 1..Len(matches)}

Extract(v, text) ==
    IF v = "new" THEN extract_fields(text) ELSE extract_fields_from_text(text)

-----------------------------------------------------------------------------
(* Substitution in one paragraph.  Each operator returns the paragraph's  *)
(* runs after the call, the count it adds, and ok = FALSE where it raises *)

(* server.py: the inner loop over fields_data.items() on one run's text *)
RECURSIVE ReplaceRunText(_, _)
ReplaceRunText(text, data) ==
    IF data = <<>> THEN [text |-> text, count |-> 0]
    ELSE LET pattern == OPEN \o Head(data)[1] \o CLOSE
             hit == Contains(text, pattern)
             r == ReplaceRunText(
                      IF hit THEN StrReplace(text, pattern, PyStr(Head(data)[2]))
                      ELSE text,
                      Tail(data))
         IN  [text |-> r.text,
              count |-> r.count + IF hit THEN StrCount(text, pattern) ELSE 0]

RECURSIVE SumCounts(_)
SumCounts(rs) == IF rs = <<>> THEN 0 ELSE Head(rs).count + SumCounts(Tail(rs))

(* server.py: every run is matched on its own and always assigned *)
replace_in_runs(paragraph, data) ==
    LET rs == [i \in 1..Len(paragraph) |-> ReplaceRunText(paragraph[i], data)]
    IN  [ok |-> TRUE,
         runs |-> [i \in 1..Len(paragraph) |-> rs[i].text],
         count |-> SumCounts(rs),
         assigned |-> paragraph # <<>>]

(* server-gemini.py: the loop over data_map.items() on the paragraph text *)
RECURSIVE SubFields(_, _)
SubFields(text, data) ==
    IF data = <<>> THEN [ok |-> TRUE, text |-> text, count |-> 0]
    ELSE LET pattern == OPEN \o Head(data)[1] \o CLOSE
             n == StrCount(text, pattern)
             repl == ExpandTemplate(PyStr(Head(data)[2]))
         IN  IF n > 0 /\ ~repl.ok
             THEN [ok |-> FALSE, text |-> text, count |-> 0]
             ELSE LET r == SubFields(
                               IF n > 0 THEN StrReplace(text, pattern, repl.text)
                               ELSE text,
                               Tail(data))
                  IN  [ok |-> r.ok, text |-> r.text, count |-> r.count + n]

(* server-gemini.py: paragraph.text is assigned only after a replacement; *)
(* the assignment leaves the paragraph with one run                       *)
replace_in_paragraph_or_cell(paragraph, data) ==
    LET r == SubFields(Flatten(paragraph), data)
    IN  [ok |-> r.ok,
         runs |-> IF r.ok /\ r.count > 0 THEN <<r.text>> ELSE paragraph,
         count |-> r.count,
         assigned |-> r.ok /\ r.count > 0]

(* server-new.py: the literal searched for a captured field *)
original_pattern(field) ==
    IF " " \in {field[i] : i \in 1..Len(field)}
    THEN OPEN \o <<" ">> \o field \o <<" ">> \o CLOSE
    ELSE OPEN \o field \o CLOSE

(* server-new.py: the loop over the fields found in the original text *)
RECURSIVE ReplaceFound(_, _, _)
ReplaceFound(new_text, found, data) ==
    IF found = <<>> THEN [text |-> new_text, count |-> 0]
    ELSE LET field == Head(found)
             clean_field == Strip(field)
         IN  IF clean_field \in Keys(data)
             THEN LET r == ReplaceFound(
                               StrReplace(new_text, original_pattern(field),
                                          PyStr(Get(data, clean_field))),
                               Tail(found), data)
                  IN  [text |-> r.text, count |-> r.count + 1]
             ELSE ReplaceFound(new_text, Tail(found), data)

replace_in_text(text, data) == ReplaceFound(text, FindallPadded(text), data)

(* server-new.py: paragraph.text is assigned when count > 0 *)
replace_paragraph_new(paragraph, data) ==
    LET r == replace_in_text(Flatten(paragraph), data)
    IN  [ok |-> TRUE,
         runs |-> IF r.count > 0 THEN <<r.text>> ELSE paragraph,
         count |-> r.count,
         assigned |-> r.count > 0]

ReplaceParagraph(v, paragraph, data) ==
    IF v = "server" THEN replace_in_runs(paragraph, data)
    ELSE IF v = "gemini" THEN replace_in_paragraph_or_cell(paragraph, data)
    ELSE replace_paragraph_new(paragraph, data)

-----------------------------------------------------------------------------
(* Documents.  A document has body paragraphs, tables (a table is a       *)
(* sequence of rows, a row a sequence of cells, a cell a sequence of      *)
(* paragraphs) and sections; a section has six header/footer parts, each  *)
(* present or not, with its paragraphs.                                   *)

PartKinds == {"header", "first_page_header", "even_page_header",
              "footer", "first_page_footer", "even_page_footer"}

NoPart == [present |-> FALSE, paragraphs |-> <<>>]

Part(paras) == [present |-> TRUE, paragraphs |-> paras]

(* A region: one paragraph of the document, named by where it is *)
Region(kind, s, r, c, p) == [kind |-> kind, s |-> s, r |-> r, c |-> c, p |-> p]

GetParagraph(doc, g) ==
    IF g.kind = "body" THEN doc.paragraphs[g.p]
    ELSE IF g.kind = "cell" THEN doc.tables[g.s][g.r][g.c][g.p]
    ELSE doc.sections[g.s][g.kind].paragraphs[g.p]

SetParagraph(doc, g, runs) ==
    IF g.kind = "body" THEN [doc EXCEPT !.paragraphs[g.p] = runs]
    ELSE IF g.kind = "cell" THEN [doc EXCEPT !.tables[g.s][g.r][g.c][g.p] = runs]
    ELSE [doc EXCEPT !.sections[g.s][g.kind].paragraphs[g.p] = runs]

(* for paragraph in doc.paragraphs *)
BodyRegions(doc) ==
    [p \in 1..Len(doc.paragraphs) |-> Region("body", 0, 0, 0, p)]

(* for table in doc.tables: for row in table.rows: for cell in row.cells: *)
(*     for paragraph in cell.paragraphs                                   *)
CellRegions(doc, t, r, c) ==
    [p \in 1..Len(doc.tables[t][r][c]) |-> Region("cell", t, r, c, p)]

RowRegions(doc, t, r) ==
    Flatten([c \in 1..Len(doc.tables[t][r]) |-> CellRegions(doc, t, r, c)])

TableRegions(doc, t) ==
    Flatten([r \in 1..Len(doc.tables[t]) |-> RowRegions(doc, t, r)])

TablesRegions(doc) ==
    Flatten([t \in 1..Len(doc.tables) |-> TableRegions(doc, t)])

(* if section.<kind>: for paragraph in section.<kind>.paragraphs *)
PartRegions(doc, s, kind) ==
    IF doc.sections[s][kind].present
    THEN [p \in 1..Len(doc.sections[s][kind].paragraphs)
              |-> Region(kind, s, 0, 0, p)]
    ELSE <<>>

(* for section in doc.sections: the parts in the order of the statements *)
SectionsRegions(doc, kinds) ==
    Flatten([s \in 1..Len(doc.sections) |->
                Flatten([k \in 1..Len(kinds) |-> PartRegions(doc, s, kinds[k])])])

(* The header/footer parts each function visits, in statement order *)
(* the footer read before the header *)
FindPartsServerFooterFirst == <<"footer", "header">>

FindPartsServer == <<"header", "footer">>

ReplacePartsServer == <<"header", "footer">>

FindPartsGemini == <<"header", "even_page_header", "first_page_header",
                     "footer", "even_page_footer", "first_page_footer">>

(* the first-page parts visited before the even-page parts *)
ReplacePartsGeminiFirstBeforeEven ==
    <<"header", "first_page_header", "even_page_header",
      "footer", "first_page_footer", "even_page_footer">>

ReplacePartsGemini == <<"header", "even_page_header", "first_page_header",
                        "footer", "even_page_footer", "first_page_footer">>

FindPartsNew == <<"header", "footer">>

ReplacePartsNew == <<"header", "footer">>

FindParts(v) ==
    IF v = "server" THEN FindPartsServer
    ELSE IF v = "gemini" THEN FindPartsGemini ELSE FindPartsNew

ReplaceParts(v) ==
    IF v = "server" THEN ReplacePartsServer
    ELSE IF v = "gemini" THEN ReplacePartsGemini ELSE ReplacePartsNew

(* The paragraphs find_template_fields reads, in order *)
FindRegions(v, doc) ==
    BodyRegions(doc) \o TablesRegions(doc) \o SectionsRegions(doc, FindParts(v))

(* The paragraphs replace_fields_in_document visits, in order *)
ReplaceRegions(v, doc) ==
    BodyRegions(doc) \o TablesRegions(doc) \o SectionsRegions(doc, ReplaceParts(v))

-----------------------------------------------------------------------------
(* sorted(list(fields)): strings compare by code point *)

Ord(c) ==
    CASE c = "\t" -> 9  [] c = "\n" -> 10 [] c = " " -> 32 [] c = "1" -> 49
      [] c = "F" -> 70  [] c = "T" -> 84  [] c = "X" -> 88 [] c = "Y" -> 89
      [] c = "\\" -> 92 [] c = "a" -> 97  [] c = "b" -> 98 [] c = "e" -> 101
      [] c = "l" -> 108 [] c = "n" -> 110 [] c = "r" -> 114 [] c = "s" -> 115
      [] c = "u" -> 117 [] c = "x" -> 120 [] c = "{" -> 123 [] c = "}" -> 125

RECURSIVE StrLess(_, _)
StrLess(s, t) ==
    IF t = <<>> THEN FALSE
    ELSE IF s = <<>> THEN TRUE
    ELSE IF Head(s) = Head(t) THEN StrLess(Tail(s), Tail(t))
    ELSE Ord(Head(s)) < Ord(Head(t))

RECURSIVE Sorted(_)
Sorted(S) ==
    IF S = {} THEN <<>>
    ELSE LET m == CHOOSE x \in S : \A y \in S \ {x} : StrLess(x, y)
         IN  <<m>> \o Sorted(S \ {m})

-----------------------------------------------------------------------------
(* The two passes over a document *)

RECURSIVE FieldsOf(_, _, _)
FieldsOf(v, doc, regions) ==
    IF regions = <<>> THEN {}
    ELSE Extract(v, Flatten(GetParagraph(doc, Head(regions))))
             \cup FieldsOf(v, doc, Tail(regions))

find_template_fields_descending(v, doc) ==
    LET names == Sorted(FieldsOf(v, doc, FindRegions(v, doc)))
    IN  [i \in 1..Len(names) |-> names[Len(names) + 1 - i]]

find_template_fields(v, doc) == Sorted(FieldsOf(v, doc, FindRegions(v, doc)))

(* replace_fields_in_document: the paragraphs are visited in order and    *)
(* the pass stops at the first one that raises                            *)
RECURSIVE ReplaceOver(_, _, _, _)
ReplaceOver(v, doc, regions, data) ==
    IF regions = <<>>
    THEN [ok |-> TRUE, doc |-> doc, count |-> 0, log |-> <<>>, assigned |-> <<>>]
    ELSE LET g == Head(regions)
             r == ReplaceParagraph(v, GetParagraph(doc, g), data)
         IN  IF ~r.ok
             THEN [ok |-> FALSE, doc |-> doc, count |-> 0, log |-> <<g>>,
                   assigned |-> <<>>]
             ELSE LET rest == ReplaceOver(v, SetParagraph(doc, g, r.runs),
                                          Tail(regions), data)
                  IN  [ok |-> rest.ok, doc |-> rest.doc,
                       count |-> r.count + rest.count,
                       log |-> <<g>> \o rest.log,
                       assigned |-> (IF r.assigned THEN <<g>> ELSE <<>>)
                                        \o rest.assigned]

replace_fields_in_document(v, doc, data) ==
    ReplaceOver(v, doc, ReplaceRegions(v, doc), data)

-----------------------------------------------------------------------------
(* Bounds and input sets *)

MaxRuns == 2

MaxFields == 2

MaxBody == 1

MaxRows == 2

MaxCells == 2

MaxSections == 2

MaxCalls == 2

MaxClock == 1

Variants == {"server", "gemini", "new"}

Tok(name) == OPEN \o name \o CLOSE

(* The texts a run of the template paragraph may hold: whole tokens, a    *)
(* padded token, the pieces of a token, plain text                        *)
RunTexts == {Tok(<<"a">>), Tok(<<" ", "a", " ">>), Tok(<<"b">>),
             OPEN \o <<"a">>, CLOSE, <<"b">> \o CLOSE, <<"x">>}

SeqsUpTo(S, n) == UNION {[1..k -> S] : k \in 0..n}

FieldNames == {<<"a">>, <<"b">>}

FieldValues == {StrVal(<<"X">>), StrVal(Tok(<<"b">>)), StrVal(OPEN),
                StrVal(<<"\\", "1">>), BoolVal(TRUE)}

(* The dicts json.loads may return: distinct keys, in any order *)
FieldMaps ==
    {d \in SeqsUpTo(FieldNames \X FieldValues, MaxFields) :
        \A i, j \in 1..Len(d) : i # j => d[i][1] # d[j][1]}

EmptySection == [k \in PartKinds |-> NoPart]

EmptyDoc == [paragraphs |-> <<>>, tables |-> <<>>, sections |-> <<EmptySection>>]

(* Templates of one body paragraph *)
ParagraphTemplates ==
    {[paragraphs |-> <<runs>>, tables |-> <<>>, sections |-> <<EmptySection>>] :
        runs \in SeqsUpTo(RunTexts, MaxRuns)}

(* Templates with body paragraphs, one table and sections: field a is in  *)
(* the first cell of the table, field b in part bPart of every section    *)
(* when that part is present                                              *)
Plain == <<<<"x">>>>

MkDoc(nBody, present, bPart) ==
    [paragraphs |-> [p \in 1..nBody |-> Plain],
     tables |-> << [r \in 1..MaxRows |-> [c \in 1..MaxCells |->
                      << IF r = 1 /\ c = 1 THEN <<Tok(<<"a">>)>> ELSE Plain >> ]] >>,
     sections |-> [s \in 1..MaxSections |-> [k \in PartKinds |->
                      IF k \in present
                      THEN Part(<< IF k = bPart
                                   THEN <<Tok(<<"b">>)>> ELSE Plain >>)
                      ELSE NoPart]]]

DocTemplates ==
    {MkDoc(nBody, present, bPart) :
        nBody \in 0..MaxBody, present \in SUBSET PartKinds, bPart \in PartKinds}

DocFieldMaps ==
    {<< <<<<"a">>, StrVal(<<"X">>)>>, <<<<"b">>, StrVal(<<"Y">>)>> >>,
     << <<<<"a">>, StrVal(<<"X">>)>> >>}

EdgeRunTexts == {Tok(<<>>), Tok(<<" ">>), Tok(<<"a">>), <<"x">>}

EdgeTemplates ==
    {[paragraphs |-> <<runs>>, tables |-> <<>>, sections |-> <<EmptySection>>] :
        runs \in SeqsUpTo(EdgeRunTexts, MaxRuns)}

EdgeValues == {StrVal(<<"X">>), StrVal(<<"\\", "n">>), StrVal(<<"\\", "1">>)}

EdgeFieldMaps ==
    {d \in SeqsUpTo({<<>>, <<"a">>} \X EdgeValues, MaxFields) :
        \A i, j \in 1..Len(d) : i # j => d[i][1] # d[j][1]}

-----------------------------------------------------------------------------
(* State *)

NoOutput == [saved |-> FALSE, doc |-> EmptyDoc]

(* A generate_document call before it starts, and OUTPUT_DIR before any  *)
(* file is written                                                        *)
Idle ==
    [pc |-> "idle", data |-> <<>>, filename_prefix |-> <<>>, doc |-> EmptyDoc,
     replacements_count |-> 0, filename |-> <<>>]

NoFiles == [name \in {} |-> EmptyDoc]

NoPreview ==
    [status |-> "none", matched |-> <<>>, unmatched |-> <<>>, extra |-> {},
     summary |-> <<0, 0>>]

TemplateFiles == {"ok", "missing", "unloadable"}

(* The template file and the caller's field data are inputs: a behaviour  *)
(* is the calls of one caller on one template with one fields_data.  A    *)
(* file that is missing or unloadable has no document, and an argument    *)
(* that is not JSON has no field data                                     *)
InitWith(templates, maps, files, jsons) ==
    /\ variant \in Variants
    /\ template_file \in files
    /\ template \in IF template_file = "ok" THEN templates ELSE {EmptyDoc}
    /\ json_valid \in jsons
    /\ fields_data \in IF json_valid THEN maps ELSE {<<>>}
    /\ listed = FALSE
    /\ fields = <<>>
    /\ findLog = <<>>
    /\ output = NoOutput
    /\ replacements_count = 0
    /\ replaceLog = <<>>
    /\ assigned = <<>>
    /\ result = "none"
    /\ preview = NoPreview
    /\ clock = 0
    /\ calls = [i \in 1..MaxCalls |-> Idle]
    /\ output_dir = NoFiles

Init == InitWith(ParagraphTemplates, FieldMaps, {"ok"}, {TRUE})

InitDoc == InitWith(DocTemplates, DocFieldMaps, {"ok"}, {TRUE})

InitEdge == InitWith(EdgeTemplates, EdgeFieldMaps, TemplateFiles, BOOLEAN)

(* list_template_fields: find_template_fields(TEMPLATE_PATH); an error    *)
(* message is returned when the file is missing or cannot be loaded       *)
ListTemplateFields ==
    IF template_file # "ok" THEN UNCHANGED vars
    ELSE /\ fields' = find_template_fields(variant, template)
         /\ findLog' = FindRegions(variant, template)
         /\ listed' = TRUE
         /\ UNCHANGED <<clock, calls, output_dir,
             variant, template_file, template, json_valid,
                        fields_data, result, output, replacements_count,
                        replaceLog, assigned, preview>>

(* preview_replacements: the template's fields, each with or without a    *)
(* value in the data, the keys of the data that are no field, and the     *)
(* summary len(replaced_fields)/len(template_fields)                      *)
PreviewOfAllKeysExtra(template_fields, data) ==
    LET HasValue(field) == field \in Keys(data)
        NoValue(field) == field \notin Keys(data)
        replaced_fields == SelectSeq(template_fields, HasValue)
    IN  [status |-> "ok",
         matched |-> replaced_fields,
         unmatched |-> SelectSeq(template_fields, NoValue),
         extra |-> Keys(data),
         summary |-> <<Len(replaced_fields), Len(template_fields)>>]

PreviewOf(template_fields, data) ==
    LET HasValue(field) == field \in Keys(data)
        NoValue(field) == field \notin Keys(data)
        replaced_fields == SelectSeq(template_fields, HasValue)
    IN  [status |-> "ok",
         matched |-> replaced_fields,
         unmatched |-> SelectSeq(template_fields, NoValue),
         extra |-> Keys(data)
                       \ {template_fields[i] : i \in 1..Len(template_fields)},
         summary |-> <<Len(replaced_fields), Len(template_fields)>>]

PreviewReplacements ==
    IF ~json_valid \/ template_file # "ok"
    THEN /\ preview' = [NoPreview EXCEPT !.status = "error"]
         /\ UNCHANGED <<clock, calls, output_dir,
             variant, template_file, template, json_valid,
                        fields_data, listed, fields, findLog, result, output,
                        replacements_count, replaceLog, assigned>>
    ELSE /\ fields' = find_template_fields(variant, template)
         /\ findLog' = FindRegions(variant, template)
         /\ listed' = TRUE
         /\ preview' = PreviewOf(fields', fields_data)
         /\ UNCHANGED <<clock, calls, output_dir,
             variant, template_file, template, json_valid,
                        fields_data, result, output, replacements_count,
                        replaceLog, assigned>>

SavedWithoutWarning(v, r) == r.ok

SavedDespiteError(v, r) == ~(v = "new" /\ r.count = 0)

(* generate_document saves after a pass that did not raise; server-new.py *)
(* returns a warning, without saving, when nothing was counted            *)
Saved(v, r) == r.ok /\ ~(v = "new" /\ r.count = 0)

(* generate_document: parse the data, load the template, replace, save.   *)
(* Invalid JSON, a missing template and any exception end the call with   *)
(* an error message before the save; server-new.py reads the template's   *)
(* fields again after saving                                              *)
GenerateDocument ==
    IF ~json_valid \/ template_file # "ok"
    THEN /\ result' = "error"
         /\ replaceLog' = <<>>
         /\ assigned' = <<>>
         /\ replacements_count' = 0
         /\ UNCHANGED <<clock, calls, output_dir,
             variant, template_file, template, json_valid,
                        fields_data, listed, fields, findLog, output, preview>>
    ELSE
    \E r \in {replace_fields_in_document(variant, template, fields_data)} :
    \E saved \in {Saved(variant, r)} :
        /\ replaceLog' = r.log
        /\ assigned' = r.assigned
        /\ replacements_count' = IF r.ok THEN r.count ELSE 0
        /\ output' = IF saved THEN [saved |-> TRUE, doc |-> r.doc] ELSE output
        /\ result' = IF ~r.ok THEN "error"
                     ELSE IF saved THEN "generated" ELSE "warning"
        /\ fields' = IF saved /\ variant = "new"
                     THEN find_template_fields(variant, template) ELSE fields
        /\ findLog' = IF saved /\ variant = "new"
                      THEN FindRegions(variant, template) ELSE findLog
        /\ listed' = (listed \/ (saved /\ variant = "new"))
        /\ UNCHANGED <<clock, calls, output_dir,
             variant, template_file, template, json_valid,
                       fields_data, preview>>

Next ==
    \/ ListTemplateFields
    \/ PreviewReplacements
    \/ GenerateDocument

Spec == Init /\ [][Next]_vars

SpecDoc == InitDoc /\ [][Next]_vars

(* Empty and blank tokens, the empty key, values with a backslash, and    *)
(* calls that fail before the pass                                        *)
SpecEdge == InitEdge /\ [][Next]_vars

-----------------------------------------------------------------------------
(* Several generate_document calls on one template.  Each call has its    *)
(* own data and Document; the calls share the clock and OUTPUT_DIR.       *)

Documento == <<"d", "o", "c", "u", "m", "e", "n", "t", "o">>

NombreEstudiante ==
    <<"n", "o", "m", "b", "r", "e", "_",
      "e", "s", "t", "u", "d", "i", "a", "n", "t", "e">>

Nombre == <<"n", "o", "m", "b", "r", "e">>

(* \w on the characters of the model *)
WordChars ==
    {"_", "1", "X", "Y", "a", "b", "c", "d", "e", "i", "m", "n", "o", "p",
     "r", "s", "t", "u"}

(* re.sub(r'[-\s]+', '_', text) *)
RECURSIVE JoinSeparators(_)
JoinSeparators(text) ==
    IF text = <<>> THEN <<>>
    ELSE IF Head(text) \in Whitespace \cup {"-"}
         THEN <<"_">> \o JoinSeparators(
                  SubSeq(text, NextIn(text, 1, WordChars), Len(text)))
    ELSE <<Head(text)>> \o JoinSeparators(Tail(text))

(* re.sub(r'[^\w\s-]', '', text).strip(), then the separators joined *)
CleanName(text) ==
    LET Kept(c) == c \in WordChars \cup Whitespace \cup {"-"}
    IN  JoinSeparators(Strip(SelectSeq(text, Kept)))

(* data.get(key, default) *)
DictGet(data, key, default) ==
    IF key \in Keys(data) THEN Get(data, key) ELSE default

(* The file name of a call: the text before the timestamp, and the        *)
(* timestamp, which has the resolution of a second.  ok is FALSE where    *)
(* re.sub raises on a name that is not a string                           *)
Filename(v, filename_prefix, data, timestamp) ==
    LET Named(stem) == [ok |-> TRUE, name |-> <<stem \o <<"_">>, timestamp>>]
        name == DictGet(data, NombreEstudiante,
                        DictGet(data, Nombre, StrVal(<<>>)))
        truthy == IF name.t = "str" THEN name.s # <<>> ELSE name.b
    IN  IF v = "new"
        THEN Named(IF filename_prefix # <<>> THEN filename_prefix ELSE Documento)
        ELSE IF filename_prefix # <<>>
        THEN IF v = "server"
             THEN IF filename_prefix[Len(filename_prefix)] = "_"
                  THEN Named(SubSeq(filename_prefix, 1, Len(filename_prefix) - 1))
                  ELSE Named(filename_prefix)
             ELSE IF CleanName(filename_prefix) # <<>>
                  THEN Named(CleanName(filename_prefix))
                  ELSE Named(Documento)
        ELSE IF ~truthy THEN Named(Documento)
        ELSE IF name.t # "str" THEN [ok |-> FALSE, name |-> <<>>]
        ELSE Named(CleanName(name.s))

ConcTemplates ==
    {[paragraphs |-> <<<<Tok(<<"a">>)>>>>, tables |-> <<>>,
      sections |-> <<EmptySection>>]}

ConcFieldMaps ==
    {<< <<<<"a">>, StrVal(<<"X">>)>> >>,
     << <<<<"a">>, StrVal(<<"Y">>)>> >>,
     << <<<<"a">>, StrVal(<<"X">>)>>, <<Nombre, StrVal(<<"p", "!">>)>> >>}

Prefixes == {<<>>, <<"p">>, <<"p", "_">>}

InitConc == InitWith(ConcTemplates, {<<>>}, {"ok"}, {TRUE})

baseVars ==
    <<variant, template_file, template, json_valid, fields_data, listed,
      fields, findLog, result, output, replacements_count, replaceLog,
      assigned, preview>>

(* json.loads(fields_data) and Document(TEMPLATE_PATH) *)
GenerateLoad(i) ==
    /\ calls[i].pc = "idle"
    /\ \E data \in ConcFieldMaps, prefix \in Prefixes :
           calls' = [calls EXCEPT ![i] =
                        [Idle EXCEPT !.pc = "loaded", !.data = data,
                                     !.filename_prefix = prefix,
                                     !.doc = template]]
    /\ UNCHANGED <<baseVars, clock, output_dir>>

(* replace_fields_in_document(doc, data), on the call's own Document *)
GenerateReplace(i) ==
    /\ calls[i].pc = "loaded"
    /\ \E r \in {replace_fields_in_document(variant, calls[i].doc,
                                            calls[i].data)} :
           calls' = [calls EXCEPT ![i] =
                        [@ EXCEPT !.pc = IF ~r.ok THEN "error"
                                         ELSE IF Saved(variant, r) THEN "replaced"
                                         ELSE "warning",
                                  !.doc = r.doc,
                                  !.replacements_count = r.count]]
    /\ UNCHANGED <<baseVars, clock, output_dir>>

(* timestamp = datetime.now().strftime(...) and the file name *)
GenerateName(i) ==
    /\ calls[i].pc = "replaced"
    /\ \E f \in {Filename(variant, calls[i].filename_prefix, calls[i].data,
                          clock)} :
           calls' = [calls EXCEPT ![i] =
                        [@ EXCEPT !.pc = IF f.ok THEN "named" ELSE "error",
                                  !.filename = f.name]]
    /\ UNCHANGED <<baseVars, clock, output_dir>>

(* doc.save(output_path): the file of that name is created or replaced *)
GenerateSave(i) ==
    /\ calls[i].pc = "named"
    /\ output_dir' = [name \in DOMAIN output_dir \cup {calls[i].filename} |->
                         IF name = calls[i].filename THEN calls[i].doc
                         ELSE output_dir[name]]
    /\ calls' = [calls EXCEPT ![i].pc = "done"]
    /\ UNCHANGED <<baseVars, clock>>

(* A second passes *)
Tick ==
    /\ clock < MaxClock
    /\ clock' = clock + 1
    /\ UNCHANGED <<baseVars, calls, output_dir>>

NextConc ==
    \/ \E i \in 1..MaxCalls : GenerateLoad(i)
    \/ \E i \in 1..MaxCalls : GenerateReplace(i)
    \/ \E i \in 1..MaxCalls : GenerateName(i)
    \/ \E i \in 1..MaxCalls : GenerateSave(i)
    \/ Tick

SpecConc == InitConc /\ [][NextConc]_vars

-----------------------------------------------------------------------------
(* The placeholder grammar the properties are stated in: "{{", a run of   *)
(* characters other than braces, "}}"; the name is the run, trimmed.      *)
(* Segments(text) cuts a text into its tokens and, between them, single   *)
(* characters.                                                            *)

RECURSIVE SegmentsFrom(_, _)
SegmentsFrom(text, i) ==
    IF i > Len(text) THEN <<>>
    ELSE LET j == NextIn(text, i + 2, {"{", "}"})
         IN  IF StartsAt(text, i, OPEN) /\ StartsAt(text, j, CLOSE)
             THEN <<[tok |-> TRUE, text |-> SubSeq(text, i, j + 1),
                     name |-> Strip(SubSeq(text, i + 2, j - 1))]>>
                      \o SegmentsFrom(text, j + 2)
             ELSE <<[tok |-> FALSE, text |-> <<text[i]>>, name |-> <<>>]>>
                      \o SegmentsFrom(text, i + 1)

Segments(text) == SegmentsFrom(text, 1)

TokenNames(text) ==
    LET segs == Segments(text)
    IN  {segs[i].name : i \in {k \in 1..Len(segs) : segs[k].tok}}

IsKeyToken(seg, data) == seg.tok /\ seg.name \in Keys(data)

NumKeyTokens(text, data) ==
    LET segs == Segments(text)
    IN  Cardinality({k \in 1..Len(segs) : IsKeyToken(segs[k], data)})

Drop(text, n) == SubSeq(text, n + 1, Len(text))

(* A pattern is a sequence of items, each a literal text or a gap that    *)
(* stands for any text                                                    *)
Lit(text) == [gap |-> FALSE, text |-> text]

Gap == [gap |-> TRUE, text |-> <<>>]

RECURSIVE Matches(_, _)
Matches(pattern, text) ==
    IF pattern = <<>> THEN text = <<>>
    ELSE IF Head(pattern).gap
         THEN \E k \in 0..Len(text) : Matches(Tail(pattern), Drop(text, k))
    ELSE /\ StartsAt(text, 1, Head(pattern).text)
         /\ Matches(Tail(pattern), Drop(text, Len(Head(pattern).text)))

(* The counts with which `out` is `text` with some of its key tokens      *)
(* replaced, each by the textual form of its value, and all else verbatim *)
RECURSIVE AlignCounts(_, _, _)
AlignCounts(segs, out, data) ==
    IF segs = <<>> THEN (IF out = <<>> THEN {0} ELSE {})
    ELSE LET s == Head(segs)
             kept == IF StartsAt(out, 1, s.text)
                     THEN AlignCounts(Tail(segs), Drop(out, Len(s.text)), data)
                     ELSE {}
             val == PyStr(Get(data, s.name))
             replaced == IF IsKeyToken(s, data) /\ StartsAt(out, 1, val)
                         THEN {k + 1 : k \in
                                 AlignCounts(Tail(segs), Drop(out, Len(val)), data)}
                         ELSE {}
         IN  kept \cup replaced

SubstitutionCounts(text, out, data) == AlignCounts(Segments(text), out, data)

(* Every paragraph of a document, whichever part it is in *)
AllRegions(doc) ==
    LET rs == BodyRegions(doc) \o TablesRegions(doc)
                  \o SectionsRegions(doc, FindPartsGemini)
    IN  {rs[i] : i \in 1..Len(rs)}

TextAt(doc, g) == Flatten(GetParagraph(doc, g))

BraceFree(text) == \A i \in 1..Len(text) : text[i] \notin {"{", "}"}

-----------------------------------------------------------------------------
(* C1: substitution replaces every token whose trimmed name is a key of   *)
(* the field data, the whole token with its braces and padding, by the    *)
(* textual form of the key's value: the text of every paragraph of the    *)
(* saved document is the template's text with each such token turned into *)
(* its value.                                                             *)
KeyTokensReplaced(text, out, data) ==
    LET segs == Segments(text)
    IN  Matches([i \in 1..Len(segs) |->
                    IF IsKeyToken(segs[i], data)
                    THEN Lit(PyStr(Get(data, segs[i].name))) ELSE Gap],
                out)

C1_EveryKeyTokenReplaced ==
    output.saved =>
        \A g \in AllRegions(template) :
            KeyTokensReplaced(TextAt(template, g), TextAt(output.doc, g),
                              fields_data)

(* C2: a token split across the runs of a paragraph is handled exactly    *)
(* like the same token inside one run: the saved paragraph's text is what *)
(* substitution gives on the paragraph with its runs joined into one.     *)
C2_SplitTokenLikeWholeToken ==
    output.saved =>
        \A g \in AllRegions(template) :
            TextAt(output.doc, g) =
                Flatten(ReplaceParagraph(variant, <<TextAt(template, g)>>,
                                         fields_data).runs)

(* C3: the count returned is the number of tokens replaced: the saved     *)
(* text is the template's with exactly replacements_count key tokens      *)
(* replaced by their values (a token replaced twice counts twice, a token *)
(* left in the text counts zero).                                         *)
C3_CountIsTokensReplaced ==
    (output.saved /\ Cardinality(AllRegions(template)) = 1) =>
        \A g \in AllRegions(template) :
            replacements_count \in
                SubstitutionCounts(TextAt(template, g), TextAt(output.doc, g),
                                   fields_data)

(* C4: substitution is one pass over the original text: an inserted value *)
(* is not scanned again, so it stays in the output as it is and adds      *)
(* nothing to the count.  The saved text is the template's with some key  *)
(* tokens replaced by their values, literally, and the count is at most   *)
(* the number of key tokens of the template.                              *)
C4_SinglePass ==
    (output.saved /\ Cardinality(AllRegions(template)) = 1) =>
        \A g \in AllRegions(template) :
            /\ SubstitutionCounts(TextAt(template, g), TextAt(output.doc, g),
                                  fields_data) # {}
            /\ replacements_count <= NumKeyTokens(TextAt(template, g), fields_data)

(* C5: substitution changes nothing but the replaced tokens: every token  *)
(* whose name is not a key and every character outside the key tokens is  *)
(* in the output, verbatim and in the same order.                         *)
RestVerbatim(text, out, data) ==
    LET segs == Segments(text)
    IN  Matches([i \in 1..Len(segs) |->
                    IF IsKeyToken(segs[i], data) THEN Gap ELSE Lit(segs[i].text)],
                out)

C5_RestVerbatim ==
    output.saved =>
        \A g \in AllRegions(template) :
            RestVerbatim(TextAt(template, g), TextAt(output.doc, g), fields_data)

(* C6: the names discovery returns are trimmed: none starts or ends with  *)
(* whitespace, so "{{ name }}" and "{{name}}" give the one name "name".   *)
C6_NamesTrimmed ==
    listed => \A i \in 1..Len(fields) : Strip(fields[i]) = fields[i]

-----------------------------------------------------------------------------
(* Document-level properties *)

HeaderKinds == {"header", "first_page_header", "even_page_header"}

Generated == result \in {"generated", "warning"}

(* The paragraphs of doc that hold a token named name *)
RegionsWith(doc, name) ==
    {g \in AllRegions(doc) : name \in TokenNames(TextAt(doc, g))}

FieldOnlyIn(doc, name, kinds) ==
    /\ RegionsWith(doc, name) # {}
    /\ \A g \in RegionsWith(doc, name) : g.kind \in kinds

(* C7: when one field occurs only in a table-cell paragraph and another   *)
(* only in a header paragraph, find_template_fields lists both, and       *)
(* replace_fields_in_document given both replaces both: the saved         *)
(* document holds no token of either name.                                *)
C7_CellAndHeaderFields ==
    \A n1, n2 \in FieldNames :
        (/\ FieldOnlyIn(template, n1, {"cell"})
         /\ FieldOnlyIn(template, n2, HeaderKinds))
        => /\ listed => {n1, n2} \subseteq {fields[i] : i \in 1..Len(fields)}
           /\ (result # "none" /\ {n1, n2} \subseteq Keys(fields_data))
                  => /\ output.saved
                     /\ RegionsWith(output.doc, n1) = {}
                     /\ RegionsWith(output.doc, n2) = {}

(* C8: the paragraphs a discovery pass reads are the paragraphs a         *)
(* substitution pass over the same document visits, in the same order.    *)
C8_SameRegionSequence ==
    (listed /\ Generated) => findLog = replaceLog

C8_Witness ==
    /\ listed
    /\ result = "generated"
    /\ \E i, j, k \in 1..Len(replaceLog) :
          /\ i < j /\ j < k
          /\ replaceLog[i].kind = "cell"
          /\ replaceLog[j].kind = "even_page_header"
          /\ replaceLog[k].kind = "first_page_footer"

(* The order of two regions: body paragraphs, then the cells' paragraphs  *)
(* by table, row and cell, then the sections' parts by section and by     *)
(* the rank of the part                                                   *)
ClassRank(g) == IF g.kind = "body" THEN 0 ELSE IF g.kind = "cell" THEN 1 ELSE 2

RegionKey(g, KindRank(_)) ==
    <<ClassRank(g), g.s, g.r, g.c,
      IF g.kind \in PartKinds THEN KindRank(g.kind) ELSE 0, g.p>>

RECURSIVE KeyLess(_, _)
KeyLess(a, b) ==
    /\ a # <<>>
    /\ \/ Head(a) < Head(b)
       \/ Head(a) = Head(b) /\ KeyLess(Tail(a), Tail(b))

(* log is exactly the paragraphs of doc in the parts `covered`, in order *)
VisitsInOrder(log, doc, covered, KindRank(_)) ==
    /\ {log[i] : i \in 1..Len(log)} =
           {g \in AllRegions(doc) : g.kind \in {"body", "cell"} \cup covered}
    /\ \A i, j \in 1..Len(log) :
           i < j => KeyLess(RegionKey(log[i], KindRank), RegionKey(log[j], KindRank))

(* primary, first-page, even-page *)
ClaimedRank(kind) ==
    CASE kind = "header" -> 1 [] kind = "first_page_header" -> 2
      [] kind = "even_page_header" -> 3 [] kind = "footer" -> 4
      [] kind = "first_page_footer" -> 5 [] kind = "even_page_footer" -> 6

(* primary, even-page, first-page *)
AmendedRank(kind) ==
    CASE kind = "header" -> 1 [] kind = "even_page_header" -> 2
      [] kind = "first_page_header" -> 3 [] kind = "footer" -> 4
      [] kind = "even_page_footer" -> 5 [] kind = "first_page_footer" -> 6

CoveredParts(v) == IF v = "gemini" THEN PartKinds ELSE {"header", "footer"}

C10_RoundTrip ==
    output.saved =>
        \A g \in AllRegions(template) : \A n \in Keys(fields_data) :
            (/\ NumKeyTokens(TextAt(template, g), fields_data) = 1
             /\ TokenNames(TextAt(template, g)) = {n}
             /\ BraceFree(PyStr(Get(fields_data, n))))
            => n \notin Extract(variant, TextAt(output.doc, g))

-----------------------------------------------------------------------------
(* C11: malformed tokens are never matched.  No discovered name holds a   *)
(* brace, and a text with an opening "{{" but no well-formed token (an    *)
(* unmatched "{{", as in "{{unterminated") gives no name and is left      *)
(* verbatim by substitution whatever the field data holds.                *)
HasOpen(text) == Contains(text, OPEN)

C11_MalformedNeverMatched ==
    /\ listed => \A i \in 1..Len(fields) : BraceFree(fields[i])
    /\ \A g \in AllRegions(template) :
           (HasOpen(TextAt(template, g)) /\ TokenNames(TextAt(template, g)) = {})
           => /\ listed => Extract(variant, TextAt(template, g)) = {}
              /\ output.saved => TextAt(output.doc, g) = TextAt(template, g)

(* C18: the insertion order of the field data is irrelevant: the same     *)
(* pairs in any other order give the same output text and the same count. *)
Reorderings(data) ==
    {d \in [1..Len(data) -> {data[i] : i \in 1..Len(data)}] :
        \A i, j \in 1..Len(d) : i # j => d[i] # d[j]}

C18_OrderIrrelevant ==
    output.saved =>
        \A d \in Reorderings(fields_data) :
            LET r == replace_fields_in_document(variant, template, d)
            IN  /\ r.ok
                /\ r.count = replacements_count
                /\ \A g \in AllRegions(template) :
                       TextAt(r.doc, g) = TextAt(output.doc, g)

(* C20: substitution is literal: no value makes it raise, and a text that *)
(* is one token whose name is the only key becomes exactly the textual    *)
(* form of the key's value, character for character.                      *)
C20_LiteralValues ==
    /\ result # "error"
    /\ (output.saved /\ Len(fields_data) = 1) =>
           \A g \in AllRegions(template) :
               GetParagraph(template, g) = <<Tok(fields_data[1][1])>>
               => TextAt(output.doc, g) = PyStr(fields_data[1][2])

(* C12: an empty-name token ("{{}}" or a token holding only whitespace)   *)
(* is a match whose name is the empty string: discovery reports the name  *)
(* "", substitution replaces the token when "" is a key of the field      *)
(* data, and leaves it as it is otherwise.                                *)
EmptyName == <<>>

EmptyNameSegments(text) ==
    LET segs == Segments(text)
    IN  [i \in 1..Len(segs) |->
            [segs[i] EXCEPT !.tok = segs[i].tok /\ segs[i].name = EmptyName]]

EmptyTokensReplaced(text, out, val) ==
    LET segs == EmptyNameSegments(text)
    IN  Matches([i \in 1..Len(segs) |-> IF segs[i].tok THEN Lit(val) ELSE Gap],
                out)

EmptyTokensKept(text, out) ==
    LET segs == EmptyNameSegments(text)
    IN  Matches([i \in 1..Len(segs) |->
                    IF segs[i].tok THEN Lit(segs[i].text) ELSE Gap],
                out)

NumEmpty(text) == StrCount(text, Tok(EmptyName))

NumBlank(text) == StrCount(text, Tok(<<" ">>))

NoKeyToken ==
    \A g \in AllRegions(template) :
        NumKeyTokens(TextAt(template, g), fields_data) = 0

SavedAsTemplate ==
    /\ output.saved
    /\ \A g \in AllRegions(template) :
           TextAt(output.doc, g) = TextAt(template, g)

EveryRegionSubstituted ==
    LET regions == ReplaceRegions(variant, template)
    IN  /\ replaceLog = regions
        /\ \A i \in 1..Len(regions) :
               GetParagraph(output.doc, regions[i]) =
                   ReplaceParagraph(variant, GetParagraph(template, regions[i]),
                                    fields_data).runs

C14_AllOrNothing ==
    /\ result = "generated" => output.saved /\ EveryRegionSubstituted
    /\ result \in {"error", "warning"} => ~output.saved
    /\ (result # "none" /\ (~json_valid \/ template_file # "ok"))
           => result = "error"

C14_Witness ==
    /\ result = "error"
    /\ json_valid
    /\ template_file = "ok"
    /\ replaceLog # <<>>
    /\ ~output.saved

(* C15: preview_replacements lists every discovered field exactly once,   *)
(* as matched if and only if it is a key of the field data and as         *)
(* unmatched otherwise; the extra keys are the keys of the data that are  *)
(* no discovered field; the summary is the number matched out of the      *)
(* number discovered; and the call writes no output document and leaves   *)
(* the template as it was.                                                *)
Discovered ==
    LET regions == FindRegions(variant, template)
    IN  UNION {Extract(variant, TextAt(template, regions[i])) :
                  i \in 1..Len(regions)}

Occurrences(seq, x) == Cardinality({i \in 1..Len(seq) : seq[i] = x})

PreviewClassifies ==
    preview.status = "ok" =>
        /\ \A i \in 1..Len(preview.matched) : preview.matched[i] \in Discovered
        /\ \A i \in 1..Len(preview.unmatched) :
               preview.unmatched[i] \in Discovered
        /\ \A f \in Discovered :
               /\ Occurrences(preview.matched, f)
                      = IF f \in Keys(fields_data) THEN 1 ELSE 0
               /\ Occurrences(preview.unmatched, f)
                      = IF f \in Keys(fields_data) THEN 0 ELSE 1
        /\ preview.extra = Keys(fields_data) \ Discovered
        /\ preview.summary
               = <<Len(preview.matched), Cardinality(Discovered)>>

C15_PreviewClassifies ==
    /\ []PreviewClassifies
    /\ [][preview' # preview =>
              UNCHANGED <<output, template, template_file>>]_vars

C15_Witness ==
    /\ preview.status = "ok"
    /\ preview.matched # <<>>
    /\ preview.unmatched # <<>>
    /\ preview.extra # {}
    /\ ~output.saved

(* C16: find_template_fields returns exactly the union of the names found *)
(* in the paragraphs it enumerates, each name once however many           *)
(* paragraphs hold it, in ascending lexicographic order.                  *)
LexLess(s, t) ==
    \E k \in 0..Len(t) - 1 :
        /\ k <= Len(s)
        /\ \A i \in 1..k : s[i] = t[i]
        /\ k = Len(s) \/ Ord(s[k + 1]) < Ord(t[k + 1])

C16_SortedUnion ==
    listed =>
        /\ {fields[i] : i \in 1..Len(fields)} = Discovered
        /\ \A i \in 1..Len(fields) - 1 : LexLess(fields[i], fields[i + 1])

C16_Witness ==
    /\ listed
    /\ Len(fields) = 2
    /\ Cardinality({g \in AllRegions(template) :
                       <<"b">> \in Extract(variant, TextAt(template, g))}) >= 2

(* C17: substitution never rewrites a paragraph whose text it does not    *)
(* change: such a paragraph receives no text assignment and has the same  *)
(* runs in the saved document as in the template.                         *)
C17_UnchangedNotRewritten ==
    output.saved =>
        \A g \in AllRegions(template) :
            TextAt(output.doc, g) = TextAt(template, g)
            => /\ \A i \in 1..Len(assigned) : assigned[i] # g
               /\ GetParagraph(output.doc, g) = GetParagraph(template, g)

(* C19: generate_document calls, concurrent or in quick succession, do    *)
(* not disturb one another: the output document written by one call is    *)
(* never overwritten or altered by another, so every call that has ended  *)
(* with success has its own complete output file.                         *)
C19_OwnOutputFile ==
    \A i \in 1..MaxCalls :
        calls[i].pc = "done" =>
            /\ calls[i].filename \in DOMAIN output_dir
            /\ output_dir[calls[i].filename] = calls[i].doc

====
